---------------------------- MODULE Spec2Model ----------------------------
(***************************************************************************)
(* A model of ddc-brightness-slider.py: the BrightnessController (read and *)
(* write through the external ddccontrol tool), the popup and standalone   *)
(* sliders with their debounce timers, the tray icon's scroll path with    *)
(* its cached brightness and background write thread, and main().          *)
(*                                                                         *)
(* Time is counted in milliseconds.  A GLib timeout source is dispatched   *)
(* as soon as its interval has elapsed: time does not advance past a due   *)
(* source, and a handler is one atomic step of the UI thread.              *)
(***************************************************************************)
EXTENDS Integers, Sequences, FiniteSets, TLC

(***************************************************************************)
(* Bounds of the model.                                                    *)
(***************************************************************************)
\* UI input events (slider moves, clicks, scroll ticks, toggles) per run.
MaxEvents == 3
\* --set VALUE ranges over (0 - SetSpan) .. (100 + SetSpan).
SetSpan == 3
\* The tool outputs of ReadSpec: at most MaxLines lines of MaxTokens tokens.
MaxLines == 2
MaxTokens == 2

(***************************************************************************)
(* Program constants.                                                      *)
(***************************************************************************)
DEFAULT_MIN_BRIGHTNESS == 0
DEFAULT_MAX_BRIGHTNESS == 100
DEFAULT_SCROLL_STEP == 1
\* GLib.timeout_add(150, ...) of the two sliders.
SLIDER_DEBOUNCE_MS == 150
\* GLib.timeout_add(100, ...) of the scroll path.
SCROLL_DEBOUNCE_MS == 100
\* value=50 of Gtk.Adjustment, and the "50%" of the label.
INITIAL_SCALE_VALUE == 50
\* Python's None, for an optional level and an optional source id.  Levels
\* parsed by \d+ and the configured ranges below are never negative.
None == -1

\* The preset buttons of both windows.
Presets == {1, 10, 25, 50, 75, 100}

\* The buttons the user clicks in the model.
PresetInputs == {1, 50, 100}

\* --min/--max: the default range and a narrower one.
Configs == {<<DEFAULT_MIN_BRIGHTNESS, DEFAULT_MAX_BRIGHTNESS>>, <<20, 80>>}

\* Where the user drags a slider to (Gtk clamps it to the slider's range).
SliderInputs == {0, 30, 100}

\* How far the clock moves in one step.
TimeSteps == {50}

Min2(a, b) == IF a < b THEN a ELSE b
Max2(a, b) == IF a > b THEN a ELSE b

(***************************************************************************)
(* The external tool's behaviour, as subprocess.run shows it.              *)
(*   exc    : the exception subprocess.run raises, or "none"               *)
(*   stdout : the lines printed; a line is a sequence of tokens, a token   *)
(*            [t |-> "plus", v |-> n]  for  +/n/<max>                      *)
(*            [t |-> "cur",  v |-> n]  for  current value = n              *)
(*            [t |-> "junk", v |-> 0]  for any other text                  *)
(*   rc     : the exit status                                              *)
(***************************************************************************)
ExcClasses == {"TimeoutExpired", "FileNotFoundError", "PermissionError",
               "UnicodeDecodeError"}

Junk == [t |-> "junk", v |-> 0]
Plus(n) == [t |-> "plus", v |-> n]
Cur(n) == [t |-> "cur", v |-> n]

\* Python's exception hierarchy, as far as the except clauses need it.
IsSubclass(exc, cls) ==
    \/ exc = cls
    \/ cls = "Exception"
    \/ cls = "OSError" /\ exc \in {"FileNotFoundError", "PermissionError"}

\* except (subprocess.TimeoutExpired, FileNotFoundError, Exception)
ExceptClause == {"TimeoutExpired", "FileNotFoundError", "Exception"}

CaughtNarrow(exc) ==
    \E cls \in {"TimeoutExpired", "FileNotFoundError"} : IsSubclass(exc, cls)

Caught(exc) == \E cls \in ExceptClause : IsSubclass(exc, cls)

\* re.search(r'\+/(\d+)/(\d+)', line): the leftmost match's group 1.
SearchPlus(line) ==
    IF \E i \in 1..Len(line) : line[i].t = "plus"
    THEN line[CHOOSE i \in 1..Len(line) :
                /\ line[i].t = "plus"
                /\ \A j \in 1..(i - 1) : line[j].t # "plus"].v
    ELSE None

\* re.search(r'current\s+value\s*=\s*(\d+)', line)
SearchCur(line) ==
    IF \E i \in 1..Len(line) : line[i].t = "cur"
    THEN line[CHOOSE i \in 1..Len(line) :
                /\ line[i].t = "cur"
                /\ \A j \in 1..(i - 1) : line[j].t # "cur"].v
    ELSE None

\* A loop body that takes whichever pattern stands first in the line.
MatchLineLeftmost(line) ==
    IF \E i \in 1..Len(line) : line[i].t # "junk"
    THEN line[CHOOSE i \in 1..Len(line) :
                /\ line[i].t # "junk"
                /\ \A j \in 1..(i - 1) : line[j].t = "junk"].v
    ELSE None

\* The body of the for loop: the first pattern is tried first.
MatchLine(line) ==
    IF SearchPlus(line) # None THEN SearchPlus(line) ELSE SearchCur(line)

\* for line in result.stdout.splitlines(): ... return None
RECURSIVE ScanLines(_)
ScanLines(lines) ==
    IF lines = <<>> THEN None
    ELSE IF MatchLine(Head(lines)) # None THEN MatchLine(Head(lines))
    ELSE ScanLines(Tail(lines))

\* BrightnessController.get_brightness under tool behaviour o:
\* raised says whether an exception leaves the method.
get_brightness(o) ==
    IF o.exc # "none"
    THEN [raised |-> ~Caught(o.exc), val |-> None]
    ELSE [raised |-> FALSE, val |-> ScanLines(o.stdout)]

\* value = max(0, min(100, int(value)))
ClampWriteUnclamped(value) == value

ClampWrite(value) == Max2(0, Min2(100, value))

\* A set_brightness that reports every run of the tool as a success.
set_brightness_any_exit(value, o) ==
    [sent |-> ClampWrite(value),
     ok |-> (o.exc = "none"),
     raised |-> (o.exc # "none" /\ ~Caught(o.exc))]

\* BrightnessController.set_brightness(value) under tool behaviour o:
\* sent is the value in the tool's argument list, ok the returned bool.
set_brightness(value, o) ==
    [sent |-> ClampWrite(value),
     ok |-> (o.exc = "none" /\ o.rc = 0),
     raised |-> (o.exc # "none" /\ ~Caught(o.exc))]


(***************************************************************************)
(* The tool behaviours the model draws from.                               *)
(***************************************************************************)
Raises(e) == [exc |-> e, stdout |-> <<>>, rc |-> 1]
Prints(lines) == [exc |-> "none", stdout |-> lines, rc |-> 0]
Exits(code) == [exc |-> "none", stdout |-> <<>>, rc |-> code]

\* Reads while the GUI runs and in --get.
AppReadOutcomes ==
    {Raises("TimeoutExpired"),
     Prints(<< <<Junk, Plus(50)>> >>),
     Prints(<< <<Junk>>, <<Cur(10)>> >>),
     Prints(<< <<Cur(100), Junk>> >>)}

\* Writes: exit status 0, exit status 1, and a timeout.
AppWriteOutcomes == {Exits(0), Exits(1), Raises("TimeoutExpired")}

SetArgs == (0 - SetSpan)..(100 + SetSpan)

Widgets == {"popup", "window"}

VARIABLES
    args,               \* the parsed command line
    pc,                 \* main(): "start", "gui" (inside Gtk.main) or "exit"
    exit_code,          \* the status of sys.exit, None while running
    printed,            \* what --get printed on standard output
    raised,             \* an exception left a controller method
    is_applying,        \* [widget -> BOOLEAN]
    debounce_id,        \* [widget -> source id or None]
    scale,              \* [widget -> the slider's value]
    value_label,        \* [widget -> the level the label shows]
    visible,            \* BrightnessPopup._visible
    cached_brightness,  \* TrayApp._cached_brightness
    scroll_debounce_id, \* TrayApp._scroll_debounce_id
    sources,            \* GLib's pending timeout sources
    next_source_id,     \* the id GLib hands out next
    threads,            \* background threads started and not yet run
    writes,             \* every invocation of the tool in write mode, in order
    reads,              \* every call of get_brightness, in order
    last_read,          \* the tool behaviour and result of the latest read
    hist                \* observation only: bursts, timers, the latest step

vars == <<args, pc, exit_code, printed, raised, is_applying, debounce_id,
          scale, value_label, visible, cached_brightness, scroll_debounce_id,
          sources, next_source_id, threads, writes, reads, last_read, hist>>

\* Gtk.Adjustment(lower=min_val, upper=max_val, page_size=0): set_value
\* clamps to [lower, upper].
ScaleClamp(v) == Max2(args.min, Min2(args.max, v))

\* if self._debounce_id: -- None and 0 are both false.
HandleSet(h) == h # None /\ h # 0

\* GLib.source_remove(id)
source_remove(srcs, id) == {s \in srcs : s.id # id}

\* GLib.timeout_add(ms, cb, value), returning id
timeout_add(srcs, id, ms, cb, value) ==
    srcs \cup {[id |-> id, cb |-> cb, value |-> value, remaining |-> ms]}

TimerDue == \E s \in sources : s.remaining = 0


Ids(srcs) == {s.id : s \in srcs}

\* The widget the process shows: the popup of the tray, or the window.
Live(w) == (w = "window") = args.standalone

\* The callback a widget's slider arms, and the log name of its writes.
ApplyCb(w) == IF w = "popup" THEN "popup._apply_brightness" ELSE "window._apply"
SliderSrc(w) == IF w = "popup" THEN "popup.slider" ELSE "window.slider"
PresetSrc(w) == IF w = "popup" THEN "popup.preset" ELSE "window.preset"

\* One entry of the write log: who called set_brightness(arg), what the tool
\* was asked to write, and the thread's timer (0: the UI thread).
WriteEntry(src, arg, o, tid) ==
    [src |-> src, arg |-> arg, sent |-> set_brightness(arg, o).sent,
     tid |-> tid]

ReadEntry(by, o) == [by |-> by, val |-> get_brightness(o).val]

(***************************************************************************)
(* Observation: bursts of input as the clock sees them.                    *)
(*   a slider burst  [vals, idle, from]: the values of the changes that    *)
(*     followed each other in less than the delay, the time since the last *)
(*     one (capped at the delay) and the length of the write log when the  *)
(*     burst began;                                                        *)
(*   a scroll burst  [start, deltas, idle, from]: the cached level the     *)
(*     burst began at, the ticks' deltas, and the same for the log of      *)
(*     values handed to background threads.  Track "all" counts every tick *)
(*     that found or seeded a cache, track "eff" the ticks that changed    *)
(*     the level;                                                          *)
(*   latest[w]: the value of the user's most recent slider move or preset  *)
(*     click in window w, None before the first.                           *)
(***************************************************************************)
NoSliderBurst == [vals |-> <<>>, idle |-> SLIDER_DEBOUNCE_MS, from |-> 0]
NoScrollBurst == [start |-> None, deltas |-> <<>>, idle |-> SCROLL_DEBOUNCE_MS,
                  from |-> 0]

SliderChange(b, v) ==
    IF b.vals # <<>> /\ b.idle < SLIDER_DEBOUNCE_MS
    THEN [b EXCEPT !.vals = Append(@, v), !.idle = 0]
    ELSE [vals |-> <<v>>, idle |-> 0, from |-> Len(writes)]

ScrollChange(b, c, d) ==
    IF b.deltas # <<>> /\ b.idle < SCROLL_DEBOUNCE_MS
    THEN [b EXCEPT !.deltas = Append(@, d), !.idle = 0]
    ELSE [start |-> c, deltas |-> <<d>>, idle |-> 0, from |-> Len(hist.spawned)]

Elapse(b, cap, d) == [b EXCEPT !.idle = Min2(cap, @ + d)]

\* A step of kind k with argument v; input says whether it is one of the
\* user's events.
Step(h, k, v, input) ==
    [h EXCEPT !.step = [k |-> k, v |-> v, ok |-> TRUE],
              !.nev = IF input THEN @ + 1 ELSE @]

\* A step of kind k that called set_brightness(v), the tool behaving as o.
WriteStep(h, k, v, input, o) ==
    [h EXCEPT !.step = [k |-> k, v |-> v,
                        ok |-> set_brightness(v, o).ok],
              !.nev = IF input THEN @ + 1 ELSE @]

\* The timers a handler cancelled, and whether it cancelled one not pending.
Cancel(h, handle, before, after) ==
    [h EXCEPT !.cancelled = @ \cup (Ids(before) \ Ids(after)),
              !.stale = @ \/ (HandleSet(handle) /\ handle \notin Ids(before))]

(***************************************************************************)
(* The sliders (BrightnessPopup and StandaloneWindow share this code).     *)
(***************************************************************************)
\* What _on_value_changed leaves behind: sources, handle, next id, label.
Kept(w) == [srcs |-> sources, did |-> debounce_id[w], nid |-> next_source_id,
            label |-> value_label[w]]

arm_nocancel(w, value) ==
    [srcs |-> timeout_add(sources, next_source_id, SLIDER_DEBOUNCE_MS,
                          ApplyCb(w), value),
     did |-> next_source_id, nid |-> next_source_id + 1, label |-> value]

\* self.value_label.set_text(...); if self._debounce_id: source_remove(...);
\* self._debounce_id = GLib.timeout_add(150, self._apply_brightness, value)
arm(w, value) ==
    [srcs |-> timeout_add(IF HandleSet(debounce_id[w])
                          THEN source_remove(sources, debounce_id[w])
                          ELSE sources,
                          next_source_id, SLIDER_DEBOUNCE_MS, ApplyCb(w), value),
     did |-> next_source_id, nid |-> next_source_id + 1, label |-> value]

on_value_changed_unguarded(w, applying, value) == arm(w, value)

\* _on_value_changed: if self.is_applying: return; ... arm the timer.
on_value_changed(w, applying, value) ==
    IF applying THEN Kept(w) ELSE arm(w, value)

\* scale.set_value(v) while is_applying has the value `applying`: Gtk clamps
\* v and emits value-changed only when the value changes.
set_value(w, applying, v) ==
    IF ScaleClamp(v) # scale[w]
    THEN on_value_changed(w, applying, ScaleClamp(v))
    ELSE Kept(w)


\* The handle after the timer's callback ran: self._debounce_id = None.
handle_after_fire_kept(h) == h

handle_after_fire(h) == None

\* A handler's effect on GLib's sources and on the widget's handle.
Handled(w, r) ==
    /\ sources' = r.srcs
    /\ debounce_id' = [debounce_id EXCEPT ![w] = r.did]
    /\ next_source_id' = r.nid

\* The user's events are handled between timer dispatches, MaxEvents at most.
InputReady == pc = "gui" /\ ~TimerDue /\ hist.nev < MaxEvents

Shown(w) == Live(w) /\ (w = "popup" => visible)

\* The user moves the slider of widget w to v: Gtk emits value-changed and
\* _on_value_changed runs with is_applying as it stands.
SliderMove(w, v) ==
    /\ InputReady /\ Shown(w)
    /\ ScaleClamp(v) # scale[w]
    /\ LET r == set_value(w, is_applying[w], v) IN
        /\ scale' = [scale EXCEPT ![w] = ScaleClamp(v)]
        /\ value_label' = [value_label EXCEPT ![w] = r.label]
        /\ Handled(w, r)
        /\ hist' = Cancel(Step([hist EXCEPT !.slider[w] =
                                    SliderChange(@, ScaleClamp(v)),
                                                !.latest[w] = ScaleClamp(v)],
                               "slider", ScaleClamp(v), TRUE),
                          debounce_id[w], sources, r.srcs)
    /\ UNCHANGED <<args, pc, exit_code, printed, raised, is_applying, visible,
                   cached_brightness, scroll_debounce_id, threads, writes,
                   reads, last_read>>

\* _on_preset_clicked(button, value), the tool behaving as o in the write.
PresetClicked(w, value, o) ==
    /\ InputReady /\ Shown(w)
    /\ LET r == set_value(w, TRUE, value) IN
        /\ scale' = [scale EXCEPT ![w] = ScaleClamp(value)]
        /\ value_label' = [value_label EXCEPT ![w] = value]
        /\ is_applying' = [is_applying EXCEPT ![w] = FALSE]
        /\ Handled(w, r)
        /\ hist' = Cancel(WriteStep([hist EXCEPT !.latest[w] = value],
                                    "preset", value, TRUE, o),
                          debounce_id[w], sources, r.srcs)
    /\ writes' = Append(writes, WriteEntry(PresetSrc(w), value, o, 0))
    /\ raised' = (raised \/ set_brightness(value, o).raised)
    /\ UNCHANGED <<args, pc, exit_code, printed, visible, cached_brightness,
                   scroll_debounce_id, threads, reads, last_read>>

\* A timer callback that arms the timer again when its write failed.
ApplyBrightnessRetries(w, o) ==
    /\ pc = "gui"
    /\ \E s \in sources :
        /\ s.cb = ApplyCb(w) /\ s.remaining = 0
        /\ writes' = Append(writes, WriteEntry(SliderSrc(w), s.value, o, 0))
        /\ raised' = (raised \/ set_brightness(s.value, o).raised)
        /\ IF set_brightness(s.value, o).ok
           THEN /\ debounce_id' = [debounce_id EXCEPT ![w] = None]
                /\ sources' = sources \ {s}
                /\ next_source_id' = next_source_id
           ELSE /\ debounce_id' = [debounce_id EXCEPT ![w] = next_source_id]
                /\ sources' = timeout_add(sources \ {s}, next_source_id,
                                          SLIDER_DEBOUNCE_MS, ApplyCb(w),
                                          s.value)
                /\ next_source_id' = next_source_id + 1
        /\ hist' = WriteStep([hist EXCEPT !.fired = @ \cup {s.id}], "apply",
                              s.value, FALSE, o)
    /\ UNCHANGED <<args, pc, exit_code, printed, is_applying, scale,
                   value_label, visible, cached_brightness, scroll_debounce_id,
                   threads, reads, last_read>>

\* _apply_brightness(value) / _apply(value): the slider's timer fires.
ApplyBrightness(w, o) ==
    /\ pc = "gui"
    /\ \E s \in sources :
        /\ s.cb = ApplyCb(w) /\ s.remaining = 0
        /\ debounce_id' = [debounce_id EXCEPT ![w] = handle_after_fire(@)]
        /\ writes' = Append(writes, WriteEntry(SliderSrc(w), s.value, o, 0))
        /\ raised' = (raised \/ set_brightness(s.value, o).raised)
        /\ sources' = sources \ {s}
        /\ hist' = WriteStep([hist EXCEPT !.fired = @ \cup {s.id}], "apply",
                              s.value, FALSE, o)
    /\ UNCHANGED <<args, pc, exit_code, printed, is_applying, scale,
                   value_label, visible, cached_brightness, scroll_debounce_id,
                   next_source_id, threads, reads, last_read>>

\* refresh_value() / _refresh() of widget w, the tool behaving as o.
Refreshed(w, o) ==
    LET current == get_brightness(o).val
        r == IF current # None THEN set_value(w, TRUE, current) ELSE Kept(w)
    IN  /\ scale' = [scale EXCEPT ![w] =
                        IF current # None THEN ScaleClamp(current) ELSE @]
        /\ value_label' = [value_label EXCEPT ![w] =
                              IF current # None THEN current ELSE @]
        /\ is_applying' = [is_applying EXCEPT ![w] = FALSE]
        /\ Handled(w, r)
        /\ reads' = Append(reads, ReadEntry(w, o))
        /\ last_read' = [out |-> o, val |-> current,
                         raised |-> get_brightness(o).raised]
        /\ raised' = (raised \/ get_brightness(o).raised)

\* toggle_at(x, y) while the popup is hidden: refresh_value(), then show.
ToggleShow(o) ==
    /\ InputReady /\ ~args.standalone /\ ~visible
    /\ Refreshed("popup", o)
    /\ visible' = TRUE
    /\ hist' = Step(hist, "show", 0, TRUE)
    /\ UNCHANGED <<args, pc, exit_code, printed, cached_brightness,
                   scroll_debounce_id, threads, writes>>

\* toggle_at(x, y) while the popup is visible: hide.
ToggleHide ==
    /\ InputReady /\ ~args.standalone /\ visible
    /\ visible' = FALSE
    /\ hist' = Step(hist, "hide", 0, TRUE)
    /\ UNCHANGED <<args, pc, exit_code, printed, raised, is_applying,
                   debounce_id, scale, value_label, cached_brightness,
                   scroll_debounce_id, sources, next_source_id, threads,
                   writes, reads, last_read>>


(***************************************************************************)
(* The tray icon's scroll path.                                            *)
(***************************************************************************)
needs_seed_always(c) == TRUE

\* if self._cached_brightness is None:
needs_seed(c) == c = None

adjust_target_unclamped(c, delta) == c + delta

\* new_val = max(self.min_val, min(self.max_val, self._cached_brightness + delta))
adjust_target(c, delta) == Max2(args.min, Min2(args.max, c + delta))

\* if self._scroll_debounce_id: GLib.source_remove(self._scroll_debounce_id)
\* self._scroll_debounce_id = GLib.timeout_add(100, ..., new_val)
scroll_arm(srcs, nid, value) ==
    [srcs |-> timeout_add(IF HandleSet(scroll_debounce_id)
                          THEN source_remove(srcs, scroll_debounce_id)
                          ELSE srcs,
                          nid, SCROLL_DEBOUNCE_MS,
                          "tray._apply_scroll_brightness", value),
     sid |-> nid, nid |-> nid + 1]

\* _on_scroll_event / _on_indicator_scroll: the two directions.
ScrollDeltas == {DEFAULT_SCROLL_STEP, 0 - DEFAULT_SCROLL_STEP}

\* _adjust_brightness(delta), the tool behaving as o if it is read.
ScrollTick(delta, o) ==
    /\ InputReady /\ ~args.standalone
    /\ LET must_read == needs_seed(cached_brightness)
           seeded == IF must_read THEN get_brightness(o).val
                     ELSE cached_brightness
           new_val == adjust_target(seeded, delta)
           changed == seeded # None /\ new_val # seeded
           \* if self.popup._visible: self.popup.update_value(new_val)
           r == IF changed /\ visible THEN set_value("popup", TRUE, new_val)
                ELSE Kept("popup")
           a == IF changed THEN scroll_arm(r.srcs, r.nid, new_val)
                ELSE [srcs |-> r.srcs, sid |-> scroll_debounce_id,
                      nid |-> r.nid]
       IN
        /\ reads' = IF must_read
                    THEN Append(reads, ReadEntry("tray.scroll", o)) ELSE reads
        /\ last_read' = IF must_read
                        THEN [out |-> o, val |-> get_brightness(o).val,
                              raised |-> get_brightness(o).raised]
                        ELSE last_read
        /\ raised' = (raised \/ (must_read /\ get_brightness(o).raised))
        /\ cached_brightness' = IF changed THEN new_val ELSE seeded
        /\ scale' = [scale EXCEPT !["popup"] =
                        IF changed /\ visible THEN ScaleClamp(new_val) ELSE @]
        /\ value_label' = [value_label EXCEPT !["popup"] =
                              IF changed /\ visible THEN new_val ELSE @]
        /\ is_applying' = [is_applying EXCEPT !["popup"] =
                              IF changed /\ visible THEN FALSE ELSE @]
        /\ sources' = a.srcs
        /\ debounce_id' = [debounce_id EXCEPT !["popup"] = r.did]
        /\ scroll_debounce_id' = a.sid
        /\ next_source_id' = a.nid
        /\ hist' = Cancel(Step(
              [hist EXCEPT
                 !.scroll["all"] = IF seeded # None
                                   THEN ScrollChange(@, seeded, delta) ELSE @,
                 !.scroll["eff"] = IF changed
                                   THEN ScrollChange(@, seeded, delta) ELSE @,
                 !.armed = IF changed
                           THEN @ \cup {[id |-> a.sid, value |-> new_val]}
                           ELSE @],
              "scroll", delta, TRUE),
              scroll_debounce_id, sources, a.srcs)
    /\ UNCHANGED <<args, pc, exit_code, printed, visible, threads, writes>>

\* _apply_scroll_brightness(value): the scroll timer fires and starts a
\* daemon thread running controller.set_brightness(value).
ApplyScrollBrightness ==
    /\ pc = "gui"
    /\ \E s \in sources :
        /\ s.cb = "tray._apply_scroll_brightness" /\ s.remaining = 0
        /\ scroll_debounce_id' = handle_after_fire(scroll_debounce_id)
        /\ threads' = threads \cup {[timer |-> s.id, value |-> s.value]}
        /\ sources' = sources \ {s}
        /\ hist' = Step([hist EXCEPT
                           !.fired = @ \cup {s.id},
                           !.spawned = Append(@, [timer |-> s.id,
                                                  value |-> s.value])],
                        "apply_scroll", 0, FALSE)
    /\ UNCHANGED <<args, pc, exit_code, printed, raised, is_applying,
                   debounce_id, scale, value_label, visible, cached_brightness,
                   next_source_id, writes, reads, last_read>>

thread_arg_late(t) == cached_brightness

\* args=(value,): the thread holds its own copy of the value.
thread_arg(t) == t.value

\* A thread that drops the cached level when its write fails.
ThreadRunInvalidates(t, o) ==
    /\ pc = "gui"
    /\ t \in threads
    /\ writes' = Append(writes, WriteEntry("tray.scroll", thread_arg(t), o,
                                           t.timer))
    /\ raised' = (raised \/ set_brightness(thread_arg(t), o).raised)
    /\ threads' = threads \ {t}
    /\ cached_brightness' = IF set_brightness(thread_arg(t), o).ok
                            THEN cached_brightness ELSE None
    /\ hist' = WriteStep(hist, "thread", thread_arg(t), FALSE, o)
    /\ UNCHANGED <<args, pc, exit_code, printed, is_applying, debounce_id,
                   scale, value_label, visible, scroll_debounce_id, sources,
                   next_source_id, reads, last_read>>

\* The background thread runs set_brightness, the tool behaving as o.
ThreadRun(t, o) ==
    /\ pc = "gui"
    /\ t \in threads
    /\ writes' = Append(writes, WriteEntry("tray.scroll", thread_arg(t), o,
                                           t.timer))
    /\ raised' = (raised \/ set_brightness(thread_arg(t), o).raised)
    /\ threads' = threads \ {t}
    /\ hist' = WriteStep(hist, "thread", thread_arg(t), FALSE, o)
    /\ UNCHANGED <<args, pc, exit_code, printed, is_applying, debounce_id,
                   scale, value_label, visible, cached_brightness,
                   scroll_debounce_id, sources, next_source_id, reads,
                   last_read>>

\* d milliseconds pass with the main loop idle: no source is overdue.
Advance(d) ==
    /\ pc = "gui"
    /\ \A s \in sources : s.remaining >= d
    /\ sources' = {[s EXCEPT !.remaining = @ - d] : s \in sources}
    /\ hist' = Step([hist EXCEPT
                       !.slider = [w \in Widgets |->
                                     Elapse(@[w], SLIDER_DEBOUNCE_MS, d)],
                       !.scroll = [k \in {"all", "eff"} |->
                                     Elapse(@[k], SCROLL_DEBOUNCE_MS, d)]],
                    "advance", 0, FALSE)
    /\ UNCHANGED <<args, pc, exit_code, printed, raised, is_applying,
                   debounce_id, scale, value_label, visible, cached_brightness,
                   scroll_debounce_id, next_source_id, threads, writes, reads,
                   last_read>>


(***************************************************************************)
(* main()                                                                  *)
(***************************************************************************)
ArgSets ==
    {[get |-> g, has_set |-> hs, set |-> v, standalone |-> sa,
      min |-> c[1], max |-> c[2]] :
        g \in BOOLEAN, hs \in {TRUE}, v \in SetArgs, sa \in BOOLEAN,
        c \in Configs}
    \cup
    {[get |-> g, has_set |-> FALSE, set |-> 0, standalone |-> sa,
      min |-> c[1], max |-> c[2]] :
        g \in BOOLEAN, sa \in BOOLEAN, c \in Configs}

Init ==
    /\ args \in ArgSets
    /\ pc = "start"
    /\ exit_code = None
    /\ printed = [out |-> <<>>, err |-> <<>>]
    /\ raised = FALSE
    /\ is_applying = [w \in Widgets |-> FALSE]
    /\ debounce_id = [w \in Widgets |-> None]
    /\ scale = [w \in Widgets |-> ScaleClamp(INITIAL_SCALE_VALUE)]
    /\ value_label = [w \in Widgets |-> INITIAL_SCALE_VALUE]
    /\ visible = FALSE
    /\ cached_brightness = None
    /\ scroll_debounce_id = None
    /\ sources = {}
    /\ next_source_id = 1
    /\ threads = {}
    /\ writes = <<>>
    /\ reads = <<>>
    /\ last_read = [out |-> Prints(<<>>), val |-> None, raised |-> FALSE]
    /\ hist = [nev |-> 0, step |-> [k |-> "init", v |-> 0, ok |-> TRUE],
               slider |-> [w \in Widgets |-> NoSliderBurst],
               scroll |-> [k \in {"all", "eff"} |-> NoScrollBurst],
               armed |-> {}, cancelled |-> {}, fired |-> {}, stale |-> FALSE,
               spawned |-> <<>>, latest |-> [w \in Widgets |-> None]]

\* A --get that reports an unreadable level but still exits with status 0.
MainGetExitsZero(o) ==
    /\ pc = "start" /\ args.get
    /\ LET g == get_brightness(o) IN
        /\ reads' = Append(reads, ReadEntry("main.get", o))
        /\ last_read' = [out |-> o, val |-> g.val, raised |-> g.raised]
        /\ raised' = (raised \/ g.raised)
        /\ printed' = IF g.val # None
                      THEN [printed EXCEPT !.out = Append(@, g.val)]
                      ELSE [printed EXCEPT !.err =
                              Append(@, "Error: could not read brightness")]
        /\ exit_code' = 0
    /\ pc' = "exit"
    /\ hist' = Step(hist, "main.get", 0, FALSE)
    /\ UNCHANGED <<args, is_applying, debounce_id, scale, value_label, visible,
                   cached_brightness, scroll_debounce_id, sources,
                   next_source_id, threads, writes>>

\* if args.get: val = controller.get_brightness(); print and exit.
MainGet(o) ==
    /\ pc = "start" /\ args.get
    /\ LET g == get_brightness(o) IN
        /\ reads' = Append(reads, ReadEntry("main.get", o))
        /\ last_read' = [out |-> o, val |-> g.val, raised |-> g.raised]
        /\ raised' = (raised \/ g.raised)
        /\ printed' = IF g.val # None
                      THEN [printed EXCEPT !.out = Append(@, g.val)]
                      ELSE [printed EXCEPT !.err =
                              Append(@, "Error: could not read brightness")]
        /\ exit_code' = IF g.val # None THEN 0 ELSE 1
    /\ pc' = "exit"
    /\ hist' = Step(hist, "main.get", 0, FALSE)
    /\ UNCHANGED <<args, is_applying, debounce_id, scale, value_label, visible,
                   cached_brightness, scroll_debounce_id, sources,
                   next_source_id, threads, writes>>

\* if args.set is not None: ok = controller.set_brightness(args.set); exit.
MainSet(o) ==
    /\ pc = "start" /\ ~args.get /\ args.has_set
    /\ writes' = Append(writes, WriteEntry("main.set", args.set, o, 0))
    /\ raised' = (raised \/ set_brightness(args.set, o).raised)
    /\ exit_code' = IF set_brightness(args.set, o).ok THEN 0 ELSE 1
    /\ pc' = "exit"
    /\ hist' = WriteStep(hist, "main.set", args.set, FALSE, o)
    /\ UNCHANGED <<args, printed, is_applying, debounce_id, scale, value_label,
                   visible, cached_brightness, scroll_debounce_id, sources,
                   next_source_id, threads, reads, last_read>>

\* win = StandaloneWindow(...): __init__ ends with self._refresh().
MainStandalone(o) ==
    /\ pc = "start" /\ ~args.get /\ ~args.has_set /\ args.standalone
    /\ Refreshed("window", o)
    /\ pc' = "gui"
    /\ hist' = Step(hist, "main.standalone", 0, FALSE)
    /\ UNCHANGED <<args, exit_code, printed, visible, cached_brightness,
                   scroll_debounce_id, threads, writes>>

\* What the desktop offers: Gtk.StatusIcon() can be built (status_icon), and
\* gi.require_version and the import succeed for AyatanaAppIndicator3
\* (ayatana) and for AppIndicator3 (appindicator).
Availabilities ==
    [status_icon : BOOLEAN, ayatana : BOOLEAN, appindicator : BOOLEAN]

\* A TrayApp.__init__ that gives up after AyatanaAppIndicator3.
setup_backend_no_fallback(av) ==
    IF av.status_icon THEN "GtkStatusIcon"
    ELSE IF av.ayatana THEN "AyatanaAppIndicator3"
    ELSE "none"

\* TrayApp.__init__: if self._setup_status_icon(): pass; else try Ayatana;
\* except (ValueError, ImportError): try AppIndicator3; except: sys.exit(1).
setup_backend(av) ==
    IF av.status_icon THEN "GtkStatusIcon"
    ELSE IF av.ayatana THEN "AyatanaAppIndicator3"
    ELSE IF av.appindicator THEN "AppIndicator3"
    ELSE "none"

\* app = TrayApp(...); Gtk.main() -- or sys.exit(1) inside TrayApp.__init__
\* when no backend is there.  The step keeps what the desktop offered and
\* the backend that was set up.
MainTray(av) ==
    /\ pc = "start" /\ ~args.get /\ ~args.has_set /\ ~args.standalone
    /\ LET b == setup_backend(av) IN
        /\ pc' = IF b = "none" THEN "exit" ELSE "gui"
        /\ exit_code' = IF b = "none" THEN 1 ELSE exit_code
        /\ printed' = IF b = "none"
                      THEN [printed EXCEPT !.err =
                              Append(@, "ERROR: No tray icon backend available!")]
                      ELSE printed
        /\ hist' = [hist EXCEPT !.step = [k |-> "main.tray", v |-> 0,
                                          ok |-> TRUE, avail |-> av,
                                          backend |-> b]]
    /\ UNCHANGED <<args, raised, is_applying, debounce_id,
                   scale, value_label, visible, cached_brightness,
                   scroll_debounce_id, sources, next_source_id, threads,
                   writes, reads, last_read>>

Next ==
    \/ \E o \in AppReadOutcomes : MainGet(o)
    \/ \E o \in AppWriteOutcomes : MainSet(o)
    \/ \E o \in AppReadOutcomes : MainStandalone(o)
    \/ \E av \in Availabilities : MainTray(av)
    \/ \E w \in Widgets, v \in SliderInputs : SliderMove(w, v)
    \/ \E w \in Widgets, p \in Presets \cap PresetInputs, o \in AppWriteOutcomes :
          PresetClicked(w, p, o)
    \/ \E w \in Widgets, o \in AppWriteOutcomes : ApplyBrightness(w, o)
    \/ \E o \in AppReadOutcomes : ToggleShow(o)
    \/ ToggleHide
    \/ \E d \in ScrollDeltas, o \in AppReadOutcomes : ScrollTick(d, o)
    \/ ApplyScrollBrightness
    \/ \E t \in threads, o \in AppWriteOutcomes : ThreadRun(t, o)
    \/ \E d \in TimeSteps : Advance(d)

Spec == Init /\ [][Next]_vars

(***************************************************************************)
(* get_brightness on its own, over every tool behaviour within the bounds. *)
(***************************************************************************)
SeqsUpTo(S, n) == UNION {[1..k -> S] : k \in 0..n}

Tokens == {Junk, Plus(70), Plus(5), Cur(42)}

AllReadOutcomes ==
    {Raises(e) : e \in ExcClasses}
    \cup {Prints(ls) : ls \in SeqsUpTo(SeqsUpTo(Tokens, MaxTokens), MaxLines)}

ReadInit ==
    /\ Init
    /\ args = [get |-> TRUE, has_set |-> FALSE, set |-> 0,
               standalone |-> FALSE, min |-> DEFAULT_MIN_BRIGHTNESS,
               max |-> DEFAULT_MAX_BRIGHTNESS]

\* The first call of get_brightness, the tool behaving as o.
ReadCall(o) ==
    /\ hist.step.k = "init"
    /\ last_read' = [out |-> o, val |-> get_brightness(o).val,
                     raised |-> get_brightness(o).raised]
    /\ raised' = (raised \/ get_brightness(o).raised)
    /\ reads' = Append(reads, ReadEntry("controller", o))
    /\ hist' = Step(hist, "read", 0, FALSE)
    /\ UNCHANGED <<args, pc, exit_code, printed, is_applying, debounce_id,
                   scale, value_label, visible, cached_brightness,
                   scroll_debounce_id, sources, next_source_id, threads,
                   writes>>

ReadNext == hist.step.k = "init" /\ \E o \in AllReadOutcomes : ReadCall(o)

ReadSpec == ReadInit /\ [][ReadNext]_vars


(***************************************************************************)
(* set_brightness on its own, over every value and tool behaviour.         *)
(***************************************************************************)
\* Exit statuses: success, two failures, and death by signal 9.
ExitStatuses == {0 - 9, 0, 1, 2}

AllWriteOutcomes ==
    {Raises(e) : e \in ExcClasses} \cup {Exits(c) : c \in ExitStatuses}

WriteInit ==
    /\ Init
    /\ args = [get |-> FALSE, has_set |-> TRUE, set |-> 0,
               standalone |-> FALSE, min |-> DEFAULT_MIN_BRIGHTNESS,
               max |-> DEFAULT_MAX_BRIGHTNESS]

\* The first call of set_brightness(value), the tool behaving as o; the
\* step keeps the tool's behaviour next to the returned bool.
WriteCall(value, o) ==
    /\ hist.step.k = "init"
    /\ writes' = Append(writes, WriteEntry("controller", value, o, 0))
    /\ raised' = (raised \/ set_brightness(value, o).raised)
    /\ hist' = [hist EXCEPT !.step = [k |-> "write", v |-> value,
                                      ok |-> set_brightness(value, o).ok,
                                      out |-> o]]
    /\ UNCHANGED <<args, pc, exit_code, printed, is_applying, debounce_id,
                   scale, value_label, visible, cached_brightness,
                   scroll_debounce_id, sources, next_source_id, threads,
                   reads, last_read>>

WriteNext ==
    hist.step.k = "init"
    /\ \E value \in SetArgs, o \in AllWriteOutcomes : WriteCall(value, o)

WriteSpec == WriteInit /\ [][WriteNext]_vars


(***************************************************************************)
(* The claims.                                                             *)
(***************************************************************************)
Last(q) == q[Len(q)]

\* The writes the slider of w made since its current burst began.
BurstWrites(w) ==
    {i \in (hist.slider[w].from + 1)..Len(writes) :
        writes[i].src = SliderSrc(w)}

\* C1: a burst of slider changes on one control, each less than the debounce
\* delay after the one before, is written exactly once, after the delay has
\* passed without a change, and the write carries the burst's last value:
\* nothing is written while the burst lasts, never more than one write
\* follows it, and no other value of the burst is written.
C1_BurstWrittenOnceWithLastValue ==
    \A w \in Widgets :
        LET b == hist.slider[w] IN
        b.vals # <<>> =>
            /\ Cardinality(BurstWrites(w)) <= 1
            /\ \A i \in BurstWrites(w) : writes[i].arg = Last(b.vals)
            /\ b.idle < SLIDER_DEBOUNCE_MS => BurstWrites(w) = {}
            /\ (b.idle >= SLIDER_DEBOUNCE_MS /\ ~TimerDue)
                  => Cardinality(BurstWrites(w)) = 1

\* C1 happens: a burst of two different values has settled and was written
\* once.
C1_Witness ==
    \E w \in Widgets :
        LET b == hist.slider[w] IN
        /\ Len(b.vals) >= 2
        /\ b.vals[1] # Last(b.vals)
        /\ b.idle >= SLIDER_DEBOUNCE_MS
        /\ Cardinality(BurstWrites(w)) = 1

GuiSources == {"popup.slider", "popup.preset", "window.slider",
               "window.preset", "tray.scroll"}

\* C2: every value the tool is asked to write after a slider move, a preset
\* click or a scroll tick lies within the configured [min, max].
C2_WritesWithinConfiguredRange ==
    \A i \in 1..Len(writes) :
        writes[i].src \in GuiSources
            => (args.min <= writes[i].sent /\ writes[i].sent <= args.max)

\* C3: whatever value set_brightness is called with, and whatever --min and
\* --max are, the tool is asked to write that value brought into 0..100.
C3_WriteSendsValueClampedTo0_100 ==
    \A i \in 1..Len(writes) :
        writes[i].sent = (IF writes[i].arg < 0 THEN 0
                          ELSE IF writes[i].arg > 100 THEN 100
                          ELSE writes[i].arg)

\* C3 happens: --set 103 with --max 80 sends 100, not 80 and not 103.
C3_Witness ==
    /\ args.max = 80
    /\ \E i \in 1..Len(writes) : writes[i].arg = 103 /\ writes[i].sent = 100

\* The three logical controls: their handle and their callback.
Controls ==
    {[handle |-> debounce_id["popup"], cb |-> "popup._apply_brightness"],
     [handle |-> debounce_id["window"], cb |-> "window._apply"],
     [handle |-> scroll_debounce_id, cb |-> "tray._apply_scroll_brightness"]}

\* C4: each control has at most one pending timer, its handle is set exactly
\* when that timer is pending and names it, no cancelled timer has fired and
\* no handler cancelled a timer that was not pending.
C4_OnePendingTimerPerControl ==
    /\ \A c \in Controls :
        LET pending == {s \in sources : s.cb = c.cb} IN
        /\ Cardinality(pending) <= 1
        /\ HandleSet(c.handle) <=> pending # {}
        /\ \A s \in pending : s.id = c.handle
    /\ hist.cancelled \cap hist.fired = {}
    /\ ~hist.stale

\* C4 happens: one timer was cancelled by a re-arm, another has fired and
\* cleared its handle, and a third is pending.
C4_Witness ==
    /\ hist.cancelled # {}
    /\ hist.fired # {}
    /\ sources # {}


\* A level brought into the configured range, and the ticks ds applied to c
\* one after the other.
IntoRange(x) ==
    IF x < args.min THEN args.min ELSE IF x > args.max THEN args.max ELSE x

RECURSIVE ApplyTicks(_, _)
ApplyTicks(c, ds) ==
    IF ds = <<>> THEN c ELSE ApplyTicks(IntoRange(c + Head(ds)), Tail(ds))

\* The values handed to background threads since scroll burst k began.
BurstDispatches(k) ==
    [i \in 1..(Len(hist.spawned) - hist.scroll[k].from) |->
        hist.spawned[hist.scroll[k].from + i].value]

\* A burst of scroll ticks on track k settles on the ticks applied in order
\* with clamping, and that target alone is dispatched, once, after the delay.
ScrollBurstSettles(k) ==
    LET b == hist.scroll[k] IN
    b.deltas # <<>> =>
        /\ cached_brightness = ApplyTicks(b.start, b.deltas)
        /\ b.idle < SCROLL_DEBOUNCE_MS => BurstDispatches(k) = <<>>
        /\ (b.idle >= SCROLL_DEBOUNCE_MS /\ ~TimerDue)
              => BurstDispatches(k) = <<ApplyTicks(b.start, b.deltas)>>

\* Every background write carries the value dispatched with its timer, and
\* no dispatch is written twice.
ScrollWritesAreDispatches ==
    /\ \A i \in 1..Len(writes) :
        writes[i].src = "tray.scroll" =>
            \E j \in 1..Len(hist.spawned) :
                hist.spawned[j] = [timer |-> writes[i].tid,
                                   value |-> writes[i].arg]
    /\ \A i, j \in 1..Len(writes) :
        (writes[i].src = "tray.scroll" /\ writes[j].src = "tray.scroll"
            /\ writes[i].tid = writes[j].tid) => i = j

\* C5 as stated: a burst of scroll ticks (every tick that finds or seeds a
\* cached level), each before the scroll delay expires, settles on the ticks
\* applied in order with clamping, and only that target is written, exactly
\* once, after quiescence.
C5_EveryTickBurstWrittenOnce ==
    ScrollBurstSettles("all") /\ ScrollWritesAreDispatches

\* C5 amended: the same for a burst of ticks each of which changes the
\* clamped level; a tick that leaves the level as it is is ignored.
C5_ChangingTickBurstWrittenOnce ==
    ScrollBurstSettles("eff") /\ ScrollWritesAreDispatches

\* C5 happens: from 50, up, up, down settles on 51 and 51 alone is written.
C5_Witness ==
    /\ hist.scroll["eff"].start = 50
    /\ hist.scroll["eff"].deltas = <<1, 1, -1>>
    /\ writes = <<[src |-> "tray.scroll", arg |-> 51, sent |-> 51,
                   tid |-> 3]>>

ScrollReads == {i \in 1..Len(reads) : reads[i].by = "tray.scroll"}

\* C6 as stated: the scroll path reads the controller once, on the first
\* tick, and never again, whatever that read returned.
C6_ScrollReadsAtMostOnce == Cardinality(ScrollReads) <= 1

\* C6 amended: the scroll path reads only while no level is cached: a read
\* follows only reads that returned Unknown, and a level is cached exactly
\* when one of its reads returned one.
C6_ScrollReadsOnlyWhileUnseeded ==
    /\ \A i, j \in ScrollReads : i < j => reads[i].val = None
    /\ cached_brightness # None
          <=> \E i \in ScrollReads : reads[i].val # None

\* C6 happens: two ticks read (the first got Unknown, the second a level)
\* and a third tick read nothing.
C6_Witness ==
    /\ Cardinality(ScrollReads) = 2
    /\ cached_brightness # None
    /\ hist.nev = 3
    /\ hist.step.k = "scroll"

\* C7: a seeded cache changes in scroll ticks only: every other step,
\* whatever it writes or reads and however the write ends, leaves it.
C7_OnlyScrollTicksChangeCache ==
    [][(cached_brightness # None /\ cached_brightness' # cached_brightness)
          => (hist'.step.k = "scroll" /\ hist'.nev = hist.nev + 1)]_vars

\* C7 happens: with a level cached by a tick, a preset was clicked and
\* written, and the cache is neither the preset nor what the popup shows.
C7_Witness ==
    /\ hist.step.k = "preset"
    /\ cached_brightness # None
    /\ Last(writes).arg = hist.step.v
    /\ cached_brightness # hist.step.v
    /\ cached_brightness # scale["popup"]

\* C8: a preset click writes the preset inside the handler, and arms,
\* cancels and re-arms no timer.
C8_PresetWritesAtOnce ==
    [][(hist'.step.k = "preset" /\ hist'.nev = hist.nev + 1) =>
          /\ Len(writes') = Len(writes) + 1
          /\ Last(writes').arg = hist'.step.v
          /\ Last(writes').src \in {"popup.preset", "window.preset"}
          /\ sources' = sources
          /\ debounce_id' = debounce_id
          /\ next_source_id' = next_source_id]_vars

\* C8 happens: a preset moved the slider and was written while the slider's
\* own timer was pending.
C8_Witness ==
    \E w \in Widgets :
        /\ hist.step.k = "preset"
        /\ Last(writes).src = PresetSrc(w)
        /\ scale[w] # INITIAL_SCALE_VALUE
        /\ HandleSet(debounce_id[w])

\* C9: the background write passes the value its timer was armed with, and
\* the thread's step leaves the cache and the three handles alone.
C9_ThreadWritesArmedValue ==
    [][(hist'.step.k = "thread" /\ Len(writes') = Len(writes) + 1) =>
          /\ [id |-> Last(writes').tid, value |-> Last(writes').arg]
                \in hist.armed
          /\ cached_brightness' = cached_brightness
          /\ scroll_debounce_id' = scroll_debounce_id
          /\ debounce_id' = debounce_id]_vars

\* C9 happens: the thread wrote its value after a later tick had changed the
\* cache and armed the next timer.
C9_Witness ==
    /\ hist.step.k = "thread"
    /\ Last(writes).arg # cached_brightness
    /\ HandleSet(scroll_debounce_id)

HasPattern(lines) ==
    \E i \in 1..Len(lines) : \E j \in 1..Len(lines[i]) :
        lines[i][j].t \in {"plus", "cur"}

\* C10: no exception leaves get_brightness; when the tool fails or prints
\* no line with one of the two patterns the result is None, and a level is
\* returned only for output with a matching line.
C10_ReadNeverRaises ==
    /\ ~raised /\ ~last_read.raised
    /\ last_read.out.exc # "none" => last_read.val = None
    /\ ~HasPattern(last_read.out.stdout) => last_read.val = None
    /\ last_read.val # None => last_read.val \in Nat

\* C10 happens: the tool could not be run for a reason the except clause
\* does not name, and the read returned None.
C10_Witness ==
    /\ last_read.out.exc = "PermissionError"
    /\ last_read.val = None
    /\ ~raised

\* The lines of an output in which one of the two patterns occurs, and the
\* places of a line where a token of kind t stands.
Places(line, t) == {i \in 1..Len(line) : line[i].t = t}
MatchingLines(lines) ==
    {i \in 1..Len(lines) :
        Places(lines[i], "plus") \cup Places(lines[i], "cur") # {}}
Least(S) == CHOOSE i \in S : \A j \in S : i <= j

\* C11 as stated: the result of a read is taken from the earliest line of the
\* output in which a pattern occurs, and it is the integer of the pattern
\* that stands first in that line.
C11_FirstIntegerOfEarliestLine ==
    (hist.step.k = "read" /\ last_read.out.exc = "none"
        /\ MatchingLines(last_read.out.stdout) # {})
    => LET line == last_read.out.stdout[Least(MatchingLines(
                                                last_read.out.stdout))]
       IN  last_read.val
              = line[Least(Places(line, "plus") \cup Places(line, "cur"))].v

\* C11: the result of a read is taken from the earliest line of the output
\* in which a pattern occurs; in that line the leftmost +/n/m gives the
\* result, and the leftmost "current value = n" gives it only when the line
\* holds no +/n/m.  An output without a matching line gives None.
C11_PlusPatternFirstInEarliestLine ==
    (hist.step.k = "read" /\ last_read.out.exc = "none")
    => IF MatchingLines(last_read.out.stdout) = {}
       THEN last_read.val = None
       ELSE LET line == last_read.out.stdout[Least(MatchingLines(
                                                    last_read.out.stdout))]
            IN  last_read.val
                  = IF Places(line, "plus") # {}
                    THEN line[Least(Places(line, "plus"))].v
                    ELSE line[Least(Places(line, "cur"))].v

\* A junk line, then a line holding "current value = 42" before "+/70/100":
\* the read gives 70.
C11_Witness ==
    /\ hist.step.k = "read"
    /\ last_read.out = Prints(<< <<Junk>>, <<Cur(42), Plus(70)>> >>)
    /\ last_read.val = 70

\* C12: set_brightness returns True exactly when the tool ran and exited
\* with status 0; when the tool exits with another status, times out, is
\* missing or fails in any other way the result is False, and no exception
\* leaves the method.
C12_SuccessIffExitStatusZero ==
    hist.step.k = "write" =>
        LET o == hist.step.out IN
        /\ ~raised
        /\ (o.exc = "none" /\ o.rc = 0) => hist.step.ok
        /\ (o.exc = "none" /\ o.rc # 0) => ~hist.step.ok
        /\ o.exc # "none" => ~hist.step.ok

\* A write the tool ended with status 1, and one whose tool was missing:
\* both return False.
C12_Witness ==
    /\ hist.step.k = "write"
    /\ hist.step.out \in {Exits(1), Raises("FileNotFoundError")}
    /\ ~hist.step.ok
    /\ ~raised

\* C13 as stated: whenever --set VALUE is on the command line, whatever the
\* other options, the process ends without entering the main loop, having
\* run the tool in write mode exactly once with VALUE clamped to 0..100, and
\* its exit status is 0 when that write succeeded and 1 when it failed.
C13_SetAlwaysWritesAndExits ==
    args.has_set =>
        /\ pc # "gui"
        /\ pc = "exit" =>
            /\ Len(writes) = 1
            /\ writes[1].src = "main.set"
            /\ writes[1].sent = IF args.set < 0 THEN 0
                                ELSE IF args.set > 100 THEN 100 ELSE args.set
            /\ hist.step.k = "main.set"
            /\ exit_code = IF hist.step.ok THEN 0 ELSE 1

\* C14: with --get the process reads once and ends without a write and
\* without entering the main loop.  When the read gave a level, that level is
\* what standard output holds and the exit status is 0; when the read gave
\* None, standard output stays empty, an error goes to standard error and
\* the exit status is 1.
C14_GetPrintsLevelOrFails ==
    args.get =>
        /\ pc # "gui"
        /\ writes = <<>>
        /\ pc = "exit" =>
            /\ Len(reads) = 1 /\ reads[1].by = "main.get"
            /\ IF last_read.val # None
               THEN printed.out = <<last_read.val>> /\ exit_code = 0
               ELSE /\ printed.out = <<>>
                    /\ printed.err # <<>>
                    /\ exit_code = 1

\* --get with the tool timing out: status 1, nothing on standard output.
C14_Witness ==
    /\ args.get /\ pc = "exit"
    /\ last_read.out = Raises("TimeoutExpired")
    /\ printed.out = <<>> /\ printed.err # <<>>
    /\ exit_code = 1

\* C15 as stated: when the read made as the popup opens, or as the
\* standalone window is built, gives None, the label of that window shows
\* an unknown state (None here), not a number.
C15_UnknownReadShowsUnknown ==
    (hist.step.k \in {"show", "main.standalone"} /\ last_read.val = None)
    => \A w \in Widgets : Live(w) => value_label[w] = None

\* The kinds of step that call set_brightness, and the window of the run.
WriteKinds == {"apply", "preset", "thread", "main.set"}
LiveWidget == IF args.standalone THEN "window" ELSE "popup"

\* C16: a write intent runs the tool once, whatever the result, and nothing
\* is retried: a slider timer firing, a preset click, --set and a background
\* thread each append exactly one write and no other step appends any; a
\* scroll timer firing starts exactly one thread, and a thread writes once;
\* the step that writes arms no timer and starts no thread; and after a
\* failed write the sliders, labels, cached level and handles are what the
\* handler sets them to regardless of the result -- untouched by a timer's
\* or a thread's write (the fired timer's handle cleared), the clicked value
\* after a preset.
C16_OneWritePerIntentNoRetry ==
    [][LET k == hist'.step.k
           w == LiveWidget
       IN
        /\ k \in WriteKinds => Len(writes') = Len(writes) + 1
        /\ k \notin WriteKinds => writes' = writes
        /\ k = "apply_scroll" =>
              /\ Cardinality(threads') = Cardinality(threads) + 1
              /\ threads \subseteq threads'
        /\ k = "thread" =>
              /\ Cardinality(threads') = Cardinality(threads) - 1
              /\ \A i \in 1..Len(writes) : writes[i].tid # Last(writes').tid
        /\ k \in WriteKinds =>
              /\ Ids(sources') \subseteq Ids(sources)
              /\ threads' \subseteq threads
              /\ next_source_id' = next_source_id
        /\ (k \in WriteKinds /\ ~hist'.step.ok) =>
              /\ cached_brightness' = cached_brightness
              /\ scroll_debounce_id' = scroll_debounce_id
              /\ is_applying' = is_applying
              /\ k \in {"apply", "thread", "main.set"} =>
                    /\ scale' = scale
                    /\ value_label' = value_label
                    /\ \A x \in Widgets :
                          debounce_id'[x] \in {debounce_id[x], None}
              /\ k = "preset" =>
                    /\ scale' = [scale EXCEPT ![w] =
                                    Max2(args.min, Min2(args.max,
                                                        hist'.step.v))]
                    /\ value_label' = [value_label EXCEPT ![w] =
                                          hist'.step.v]
                    /\ debounce_id' = debounce_id
                    /\ sources' = sources
      ]_vars

\* A background write that failed: it is the only write of its timer, the
\* cached level is still there and nothing is pending.
C16_Witness ==
    /\ hist.step.k = "thread" /\ ~hist.step.ok
    /\ Len(writes) = 1 /\ Last(writes).src = "tray.scroll"
    /\ cached_brightness # None
    /\ sources = {} /\ threads = {}

\* The backends in the order of the claim, with the offer each one needs.
BackendOrder ==
    << [name |-> "GtkStatusIcon", needs |-> "status_icon"],
       [name |-> "AyatanaAppIndicator3", needs |-> "ayatana"],
       [name |-> "AppIndicator3", needs |-> "appindicator"] >>

\* C17: in tray mode the backend set up is the first of GtkStatusIcon,
\* AyatanaAppIndicator3, AppIndicator3 that the desktop offers, and the main
\* loop is entered with it; when the desktop offers none of the three, and
\* only then, the process ends with a status other than 0 without entering
\* the main loop.
C17_FirstAvailableBackendOrExit ==
    /\ hist.step.k = "main.tray" =>
        LET av == hist.step.avail
            offered == {i \in 1..3 : av[BackendOrder[i].needs]}
        IN  IF offered = {}
            THEN /\ pc = "exit"
                 /\ exit_code # None /\ exit_code # 0
                 /\ hist.step.backend = "none"
            ELSE /\ pc = "gui"
                 /\ exit_code = None
                 /\ hist.step.backend = BackendOrder[Least(offered)].name
    /\ (pc = "exit" /\ ~args.get /\ ~args.has_set)
          => (hist.step.k = "main.tray" /\ hist.nev = 0)

\* A desktop without a status icon and without Ayatana: AppIndicator3 is
\* set up and the main loop entered.
C17_Witness ==
    /\ hist.step.k = "main.tray"
    /\ hist.step.avail = [status_icon |-> FALSE, ayatana |-> FALSE,
                          appindicator |-> TRUE]
    /\ hist.step.backend = "AppIndicator3"
    /\ pc = "gui"

\* The writes that window w's slider and presets made.
WidgetWrites(w) ==
    {i \in 1..Len(writes) : writes[i].src \in {SliderSrc(w), PresetSrc(w)}}
Greatest(S) == CHOOSE i \in S : \A j \in S : j <= i

\* C18 as stated: once the user has moved a slider or clicked a preset and
\* no timer of that window is pending any more, the last value the window
\* wrote is the value of the most recent slider move or preset click.
C18_LastWriteIsLatestChoice ==
    \A w \in Widgets :
        (hist.latest[w] # None /\ ~\E s \in sources : s.cb = ApplyCb(w))
        => /\ WidgetWrites(w) # {}
           /\ writes[Greatest(WidgetWrites(w))].arg = hist.latest[w]

\* The place of the thread started by timer tid in the order of dispatch.
DispatchPlace(tid) ==
    CHOOSE n \in 1..Len(hist.spawned) : hist.spawned[n].timer = tid
ThreadWrites == {i \in 1..Len(writes) : writes[i].src = "tray.scroll"}

\* C19 as stated: background writes reach the tool in the order in which
\* their threads were started, and once no thread is left the last value a
\* thread handed to the tool is the one dispatched last.
C19_WritesInDispatchOrder ==
    /\ \A i, j \in ThreadWrites :
          i < j => DispatchPlace(writes[i].tid) < DispatchPlace(writes[j].tid)
    /\ (threads = {} /\ ThreadWrites # {})
          => writes[Greatest(ThreadWrites)].arg = Last(hist.spawned).value

\* The timers of the sliders' debounce path.
SliderTimers(srcs) == {s.id : s \in {x \in srcs : x.cb \in {ApplyCb(w) : w \in Widgets}}}
NewTimers(before, after) == {s \in after : s.id \notin Ids(before)}

\* C20: setting a slider from the program never arms the slider's debounce
\* timer, so nothing is written through it: only a slider move by the user
\* creates a slider timer.  Opening the popup, with its refresh from a
\* read, arms no timer at all and writes nothing.  A scroll tick that
\* changes the level while the popup is visible sets the popup's slider and
\* label to the new level and arms exactly one timer, the scroll path's,
\* carrying that level.  is_applying is False between handlers.
C20_ProgrammaticUpdatesArmNoSliderTimer ==
    /\ [](\A w \in Widgets : ~is_applying[w])
    /\ [][LET k == hist'.step.k IN
           /\ k # "slider" => SliderTimers(sources') \subseteq
                                 SliderTimers(sources)
           /\ k \in {"scroll", "show"} =>
                 /\ debounce_id' = debounce_id
                 /\ writes' = writes
           /\ k = "show" => NewTimers(sources, sources') = {}
           /\ (k = "scroll" /\ visible /\ hist'.armed # hist.armed) =>
                 /\ scale'["popup"] = cached_brightness'
                 /\ value_label'["popup"] = cached_brightness'
                 /\ \E s \in sources' :
                       /\ NewTimers(sources, sources') = {s}
                       /\ s.cb = "tray._apply_scroll_brightness"
                       /\ s.value = cached_brightness'
         ]_vars

\* The popup is open and a scroll tick has just moved the level: slider and
\* label follow, the only timer is the scroll path's.
C20_Witness ==
    /\ hist.step.k = "scroll" /\ visible
    /\ scale["popup"] = cached_brightness
    /\ value_label["popup"] = cached_brightness
    /\ cached_brightness # INITIAL_SCALE_VALUE
    /\ debounce_id["popup"] = None
    /\ \E s \in sources :
          /\ sources = {s}
          /\ s.cb = "tray._apply_scroll_brightness"
          /\ s.remaining = SCROLL_DEBOUNCE_MS
          /\ s.id = scroll_debounce_id

\* The cache a scroll tick works from: the cached level, or the level just
\* read when there was none.
TickBase == IF cached_brightness # None THEN cached_brightness
            ELSE last_read'.val

\* C21: the configured ranges have min <= max, and a cached level, once
\* there is one, lies within [min, max] -- also when the read that seeded it
\* gave a level outside that range.  A scroll tick whose clamped result
\* equals the level it works from changes nothing: the cache keeps that
\* level, no timer is armed, a pending timer keeps running as it was, no
\* thread is started, nothing is written and the popup is left alone.
C21_CacheWithinRangeAndNoOpTick ==
    /\ [](/\ args.min <= args.max
          /\ cached_brightness # None =>
                (args.min <= cached_brightness
                    /\ cached_brightness <= args.max))
    /\ [][(/\ hist'.step.k = "scroll"
           /\ TickBase # None
           /\ IntoRange(TickBase + hist'.step.v) = TickBase)
          => /\ cached_brightness' = TickBase
             /\ sources' = sources
             /\ scroll_debounce_id' = scroll_debounce_id
             /\ debounce_id' = debounce_id
             /\ next_source_id' = next_source_id
             /\ hist'.armed = hist.armed
             /\ threads' = threads
             /\ writes' = writes
             /\ scale' = scale
             /\ value_label' = value_label
         ]_vars

\* The seeding read gave a level above max, the cache stands at max with the
\* scroll timer half way through its delay, and an up tick has just been
\* ignored: the timer is still half way.
C21_Witness ==
    /\ hist.step.k = "scroll" /\ hist.step.v = DEFAULT_SCROLL_STEP
    /\ last_read.val > args.max
    /\ cached_brightness = args.max
    /\ \E s \in sources :
          /\ sources = {s}
          /\ s.id = scroll_debounce_id
          /\ s.cb = "tray._apply_scroll_brightness"
          /\ s.value = args.max
          /\ s.remaining = 50
    /\ writes = <<>> /\ threads = {}

=============================================================================
